---------------------------- MODULE Spec2Model ----------------------------
(***************************************************************************)
(* Model of bot.py, the Cha-hai tea shop notification relay: two Flask     *)
(* endpoints (/api/order, /api/request) that validate a JSON submission,   *)
(* format a message and deliver it with one call of the Telegram Bot API.  *)
(*                                                                         *)
(* Python strings that the code inspects character by character (the       *)
(* contact) are sequences of one-character strings; every other piece of   *)
(* text is one token.  A message is the sequence of its tokens.  Non-ASCII *)
(* literals of the source are written in ASCII (the emoji by name, the     *)
(* Russian words transliterated).                                          *)
(***************************************************************************)
EXTENDS Integers, Sequences, FiniteSets, TLC

(* ------------------------------ bounds --------------------------------- *)
MaxLen == 2
MaxItems == 1
NumReqs == 2

(* --------------------------- Python strings ---------------------------- *)
Whitespace == {" "}
Alphabet == {" ", "@", "a"}
Strings == UNION {[1..n -> Alphabet] : n \in 0..MaxLen}

RECURSIVE lstrip(_, _)
lstrip(s, chars) ==
    IF s # <<>> /\ Head(s) \in chars THEN lstrip(Tail(s), chars) ELSE s

RECURSIVE rstrip(_, _)
rstrip(s, chars) ==
    IF s # <<>> /\ s[Len(s)] \in chars
    THEN rstrip(SubSeq(s, 1, Len(s) - 1), chars)
    ELSE s

strip_nothing(s) == s

strip(s) == rstrip(lstrip(s, Whitespace), Whitespace)

lstrip_one(s) == IF s # <<>> /\ Head(s) = "@" THEN Tail(s) ELSE s

lstrip_at(s) == lstrip(s, {"@"})

RECURSIVE join(_, _)
join(sep, lines) ==
    IF lines = <<>> THEN <<>>
    ELSE IF Len(lines) = 1 THEN lines[1]
    ELSE lines[1] \o <<sep>> \o join(sep, Tail(lines))

(* ----------------------------- JSON values ----------------------------- *)
(* A field of the JSON object is a tagged value; tag "missing" is a key    *)
(* the object does not have.  s is the text str() gives for the value.     *)
Missing == [t |-> "missing", s |-> ""]
Str(x) == [t |-> "str", s |-> x]
Num(x) == [t |-> "num", s |-> x]

MissingC == [t |-> "missing", s |-> <<>>]
ContactVals ==
    {MissingC, [t |-> "null", s |-> <<>>], [t |-> "num", s |-> <<"5">>]}
        \cup {[t |-> "str", s |-> x] : x \in Strings}

ContactTypeVals == {Missing, Str("telegram"), Str("whatsapp"), Str("viber")}

ItemVals ==
    {[t |-> "obj", name |-> Str("Green Tea"), detail |-> Str("100g"), total |-> Num("500")],
     [t |-> "obj", name |-> Missing, detail |-> Missing, total |-> Missing],
     [t |-> "num", name |-> Missing, detail |-> Missing, total |-> Missing]}

ItemLists == UNION {[1..n -> ItemVals] : n \in 0..MaxItems}

ItemsVals ==
    {[t |-> "missing", l |-> <<>>], [t |-> "num", l |-> <<>>]}
        \cup {[t |-> "list", l |-> x] : x \in ItemLists}

TotalVals == {Missing, Num("500")}
TextVals == {Missing, Str(""), Str("Puer")}

NoFields ==
    [contactType |-> Missing, contact |-> MissingC,
     items |-> [t |-> "missing", l |-> <<>>], total |-> Missing,
     productName |-> Missing, message |-> Missing, extra |-> FALSE]

Body(kind, fields) == [kind |-> kind] @@ fields

(* Request bodies: not JSON at all, JSON that is no object, and objects.   *)
NonObjects ==
    {Body(k, NoFields) : k \in {"malformed", "null", "emptylist", "list", "num"}}

OrderObjects ==
    {Body("object", [NoFields EXCEPT !.contactType = ctype, !.contact = c,
                                     !.items = i, !.total = tot])
        : ctype \in ContactTypeVals, c \in ContactVals,
          i \in ItemsVals, tot \in TotalVals}

RequestObjects ==
    {Body("object", [NoFields EXCEPT !.contactType = ctype, !.contact = c,
                                     !.productName = p, !.message = m])
        : ctype \in ContactTypeVals, c \in ContactVals,
          p \in TextVals, m \in TextVals}

ExtraObjects ==
    {Body("object", [NoFields EXCEPT !.contact = c, !.extra = TRUE])
        : c \in ContactVals}

Bodies == NonObjects \cup OrderObjects \cup RequestObjects \cup ExtraObjects

NoBody == Body("malformed", NoFields)

Times == {"03.11.2026 16:04", "03.11.2026 16:05"}


Methods == {"POST", "OPTIONS"}

(* HTTP outcomes of requests.post: an exception of the client library or a *)
(* final response with a status code.                                      *)
StatusCodes == {200, 204, 304, 404, 500}
HttpOutcomes ==
    {[kind |-> "ConnectionError", code |-> 0], [kind |-> "Timeout", code |-> 0]}
        \cup {[kind |-> "response", code |-> c] : c \in StatusCodes}
NoOutcome == [kind |-> "none", code |-> 0]

(* ------------------------------ responses ------------------------------ *)
jsonify(status, ok, error) ==
    [status |-> status, json |-> TRUE, ok |-> ok, error |-> error]
NoResp == [status |-> 0, json |-> FALSE, ok |-> "", error |-> ""]
(* "", 204 of the OPTIONS branch. *)
Preflight == [status |-> 204, json |-> FALSE, ok |-> "", error |-> ""]
(* What Flask answers when a view function raises: 500, no JSON envelope.  *)
InternalServerError == [status |-> 500, json |-> FALSE, ok |-> "", error |-> ""]

(* ---------------------------- pure functions --------------------------- *)
(* request.get_json(silent=True): None when the body does not parse.       *)
get_json(body) ==
    IF body.kind = "malformed" THEN [body EXCEPT !.kind = "null"] ELSE body

HasFields(data) ==
    \/ data.extra
    \/ data.contactType.t # "missing" \/ data.contact.t # "missing"
    \/ data.items.t # "missing" \/ data.total.t # "missing"
    \/ data.productName.t # "missing" \/ data.message.t # "missing"

falsy_never(data) == FALSE

(* `not data`: None, [] and {} are falsy. *)
falsy(data) ==
    \/ data.kind \in {"null", "emptylist"}
    \/ data.kind = "object" /\ ~HasFields(data)

(* dict.get(key, default) *)
get(v, default) == IF v.t = "missing" THEN default ELSE v

format_contact_by_whatsapp(contact_type, contact) ==
    IF contact_type = Str("whatsapp")
    THEN <<"WhatsApp: ">> \o contact
    ELSE <<"Telegram: <a href=\"https://t.me/">> \o lstrip_at(contact)
            \o <<"\">@">> \o lstrip_at(contact) \o <<"</a>">>

format_contact(contact_type, contact) ==
    IF contact_type = Str("telegram")
    THEN LET username == lstrip_at(contact)
         IN  <<"Telegram: <a href=\"https://t.me/">> \o username
                \o <<"\">@">> \o username \o <<"</a>">>
    ELSE <<"WhatsApp: ">> \o contact

ContactLines(ct) ==
    << <<"PHONE <b>Kontakt:</b> ">> \o ct, <<>>, <<"POINT Napishite klientu!">> >>

ItemLine(it) ==
    <<"  * ", get(it.name, Str("")).s, " - ", get(it.detail, Str("")).s,
      " - ", get(it.total, Num("0")).s, " RUB">>

(* The first exception the loop over items raises, "" when it raises none. *)
ItemsError(items) ==
    IF items.t = "num" THEN "TypeError"
    ELSE IF \E i \in 1..Len(items.l) : items.l[i].t # "obj" THEN "AttributeError"
    ELSE ""

truthy_items(items) == items.t = "num" \/ (items.t = "list" /\ items.l # <<>>)

OrderLines(data, now, ct) ==
    << <<"CART <b>Novyj zakaz!</b>">>, <<"CALENDAR ", now>>, <<>> >>
    \o (IF truthy_items(data.items)
        THEN << <<"<b>Sostav zakaza:</b>">> >>
             \o [i \in 1..Len(data.items.l) |-> ItemLine(data.items.l[i])]
             \o << <<>>,
                   <<"MONEY <b>Itogo: ", get(data.total, Num("0")).s, " RUB</b>">>,
                   <<>> >>
        ELSE <<>>)
    \o ContactLines(ct)

RequestLines(data, now, ct) ==
    << <<"ENVELOPE <b>Novaya zayavka!</b>">>, <<"CALENDAR ", now>>, <<>> >>
    \o (IF get(data.productName, Str("")).s # ""
        THEN << <<"TEA Interesuet: <b>", data.productName.s, "</b>">>, <<>> >>
        ELSE <<>>)
    \o (IF get(data.message, Str("")).s # ""
        THEN << <<"SPEECH Soobshchenie: ", data.message.s>>, <<>> >>
        ELSE <<>>)
    \o ContactLines(ct)

(* The handler from get_json to the call of send_telegram: the exception   *)
(* it raises (exc), or the response it returns early (resp), or the        *)
(* message it hands to send_telegram (exc = "" and resp = NoResp).         *)
Early(exc, resp) == [exc |-> exc, resp |-> resp, ct |-> <<>>, msg |-> <<>>, read |-> ""]

Prepare(endpoint, body, now) ==
    LET data == get_json(body)
        contact_type == get(data.contactType, Str("telegram"))
        contact_raw == get(data.contact, [t |-> "str", s |-> <<>>])
        contact == strip(contact_raw.s)
        ct == format_contact(contact_type, contact)
    IN  IF falsy(data) THEN Early("", jsonify(400, "false", "Net dannyh"))
        ELSE IF data.kind # "object" THEN Early("AttributeError", NoResp)
        ELSE IF contact_raw.t # "str" THEN Early("AttributeError", NoResp)
        ELSE IF contact = <<>> THEN Early("", jsonify(400, "false", "Ukazhite kontakt"))
        ELSE IF endpoint = "order" /\ truthy_items(data.items)
                /\ ItemsError(data.items) # ""
             THEN [Early(ItemsError(data.items), NoResp) EXCEPT !.ct = ct, !.read = now]
        ELSE [exc |-> "", resp |-> NoResp, ct |-> ct, read |-> now,
              msg |-> join("\n", IF endpoint = "order"
                                 THEN OrderLines(data, now, ct)
                                 ELSE RequestLines(data, now, ct))]

always_ok(sent_ok) == jsonify(200, "true", "")

(* The handler's last three lines: the response for send_telegram's result *)
delivery_response(sent_ok) ==
    IF sent_ok THEN jsonify(200, "true", "")
    ELSE jsonify(500, "false", "Oshibka otpravki")

only_5xx(code) == code >= 500 /\ code < 600

(* Response.raise_for_status raises HTTPError for 4xx and 5xx. *)
raises_for_status(code) == code >= 400 /\ code < 600


(* -------------------------------- state -------------------------------- *)
VARIABLES
    BOT_TOKEN,  \* module constant read from the environment at start
    CHAT_ID,    \* module constant read from the environment at start
    pc,         \* per request: "idle", "posting" (inside requests.post), "done"
    req,        \* per request: the inbound request (endpoint, method, body)
    now,        \* per request: the local `now`, "" until datetime.now() is read
    ct,         \* per request: the local `ct`
    msg,        \* per request: the local `msg`
    posted,     \* per request: the outbound POSTs issued, in order
    calls,      \* per request: how many times send_telegram was called
    result,     \* per request: what send_telegram returned ("none" before)
    outcome,    \* per request: how requests.post ended
    raised,     \* per request: the exception that left the handler, "" if none
    resp        \* per request: the HTTP response

vars == <<BOT_TOKEN, CHAT_ID, pc, req, now, ct, msg, posted, calls, result,
          outcome, raised, resp>>

Reqs == 1..NumReqs
Tokens == {"", "123:ABC"}
ChatIds == {"", "42"}
NoReq == [endpoint |-> "", method |-> "", body |-> NoBody]

Init ==
    /\ BOT_TOKEN \in Tokens
    /\ CHAT_ID \in ChatIds
    /\ pc = [r \in Reqs |-> "idle"]
    /\ req = [r \in Reqs |-> NoReq]
    /\ now = [r \in Reqs |-> ""]
    /\ ct = [r \in Reqs |-> <<>>]
    /\ msg = [r \in Reqs |-> <<>>]
    /\ posted = [r \in Reqs |-> <<>>]
    /\ calls = [r \in Reqs |-> 0]
    /\ result = [r \in Reqs |-> "none"]
    /\ outcome = [r \in Reqs |-> NoOutcome]
    /\ raised = [r \in Reqs |-> ""]
    /\ resp = [r \in Reqs |-> NoResp]

token_missing == BOT_TOKEN = ""

(* `not BOT_TOKEN or not CHAT_ID` *)
not_configured == BOT_TOKEN = "" \/ CHAT_ID = ""

(* The arguments of http_requests.post(url, json=payload, timeout=10). *)
Post(text) ==
    [url |-> <<"https://api.telegram.org/bot", BOT_TOKEN, "/sendMessage">>,
     chat_id |-> CHAT_ID, text |-> text, parse_mode |-> "HTML", timeout |-> 10]

(* A handler that ends without reaching requests.post. *)
Finish(r, exc, response, sent_ok) ==
    /\ pc' = [pc EXCEPT ![r] = "done"]
    /\ raised' = [raised EXCEPT ![r] = exc]
    /\ resp' = [resp EXCEPT ![r] = response]
    /\ result' = [result EXCEPT ![r] = sent_ok]
    /\ UNCHANGED <<posted, outcome>>

(* One inbound request to `endpoint`, from its arrival to its response or  *)
(* to the point where send_telegram blocks in requests.post.               *)
Serve(r, endpoint, bodies) ==
    /\ \E method \in Methods, b \in bodies, t \in Times :
        LET body == IF method = "OPTIONS" THEN NoBody ELSE b
            p == Prepare(endpoint, body, t)
            sends == method = "POST" /\ p.exc = "" /\ p.resp = NoResp
        IN  /\ req' = [req EXCEPT ![r] = [endpoint |-> endpoint, method |-> method,
                                          body |-> body]]
            /\ IF method = "OPTIONS"
               THEN /\ Finish(r, "", Preflight, "none")
                    /\ UNCHANGED <<now, ct, msg, calls>>
               ELSE /\ now' = [now EXCEPT ![r] = p.read]
                    /\ ct' = [ct EXCEPT ![r] = p.ct]
                    /\ msg' = [msg EXCEPT ![r] = p.msg]
                    /\ calls' = [calls EXCEPT ![r] = IF sends THEN @ + 1 ELSE @]
                    /\ IF p.exc # "" THEN Finish(r, p.exc, InternalServerError, "none")
                       ELSE IF p.resp # NoResp THEN Finish(r, "", p.resp, "none")
                       ELSE IF not_configured
                            THEN Finish(r, "", delivery_response(FALSE), "false")
                       ELSE /\ pc' = [pc EXCEPT ![r] = "posting"]
                            /\ posted' = [posted EXCEPT ![r] = Append(@, Post(p.msg))]
                            /\ UNCHANGED <<raised, resp, result, outcome>>
    /\ UNCHANGED <<BOT_TOKEN, CHAT_ID>>

handle_order(r, bodies) ==
    /\ pc[r] = "idle"
    /\ Serve(r, "order", bodies)

handle_request(r, bodies) ==
    /\ pc[r] = "idle"
    /\ Serve(r, "request", bodies)

(* requests.post ends: raise_for_status, send_telegram's return value and  *)
(* the handler's response.                                                 *)
Deliver(r, o) ==
    LET sent_ok == o.kind = "response" /\ ~raises_for_status(o.code)
    IN  /\ outcome' = [outcome EXCEPT ![r] = o]
        /\ result' = [result EXCEPT ![r] = IF sent_ok THEN "true" ELSE "false"]
        /\ resp' = [resp EXCEPT ![r] = delivery_response(sent_ok)]
        /\ pc' = [pc EXCEPT ![r] = "done"]
        /\ UNCHANGED <<BOT_TOKEN, CHAT_ID, req, now, ct, msg, posted, calls, raised>>

post_returns_retry(r) ==
    /\ pc[r] = "posting"
    /\ \E o \in HttpOutcomes :
        IF (o.kind # "response" \/ raises_for_status(o.code)) /\ Len(posted[r]) < 2
        THEN /\ posted' = [posted EXCEPT ![r] = Append(@, Post(msg[r]))]
             /\ UNCHANGED <<BOT_TOKEN, CHAT_ID, pc, req, now, ct, msg, calls,
                            result, outcome, raised, resp>>
        ELSE Deliver(r, o)

(* A result kept in one place for all requests: the response of r follows  *)
(* the result of whichever request finished before it.                     *)
post_returns_shared(r) ==
    /\ pc[r] = "posting"
    /\ \E o \in HttpOutcomes :
        LET sent_ok == o.kind = "response" /\ ~raises_for_status(o.code)
            shared == IF \E q \in Reqs \ {r} : result[q] # "none"
                      THEN \E q \in Reqs \ {r} : result[q] = "true"
                      ELSE sent_ok
        IN  /\ outcome' = [outcome EXCEPT ![r] = o]
            /\ result' = [result EXCEPT ![r] = IF sent_ok THEN "true" ELSE "false"]
            /\ resp' = [resp EXCEPT ![r] = delivery_response(shared)]
            /\ pc' = [pc EXCEPT ![r] = "done"]
            /\ UNCHANGED <<BOT_TOKEN, CHAT_ID, req, now, ct, msg, posted, calls, raised>>

post_returns(r) ==
    /\ pc[r] = "posting"
    /\ \E o \in HttpOutcomes : Deliver(r, o)

Next ==
    \E r \in {1} :
        \/ handle_order(r, Bodies)
        \/ handle_request(r, Bodies)
        \/ post_returns(r)

Spec == Init /\ [][Next]_vars


(* ---------------- concurrent requests (threaded server) ---------------- *)
ConcBodies ==
    {NoBody}
        \cup {Body("object", [NoFields EXCEPT !.contactType = ctype,
                                              !.contact = [t |-> "str", s |-> c]])
                : ctype \in {Missing, Str("whatsapp")}, c \in {<<" ">>, <<"@", "a">>}}

NextConc ==
    \E r \in Reqs :
        \/ handle_order(r, ConcBodies)
        \/ handle_request(r, ConcBodies)
        \/ post_returns(r)

SpecConc == Init /\ [][NextConc]_vars

(* ------------------------------- claims -------------------------------- *)
IsPost(r) == pc[r] # "idle" /\ req[r].method = "POST"
AllWhitespace(s) == \A i \in 1..Len(s) : s[i] \in Whitespace
Contains(seq, sub) ==
    \E i \in 0..(Len(seq) - Len(sub)) : SubSeq(seq, i + 1, i + Len(sub)) = sub
Rejected400(r) ==
    /\ pc[r] = "done"
    /\ resp[r].status = 400 /\ resp[r].json /\ resp[r].ok = "false"
NotNotified(r) == calls[r] = 0 /\ posted[r] = <<>>

(* The `contact` field of a JSON object is empty, missing or whitespace-only. *)
BlankContact(body) ==
    /\ body.kind = "object"
    /\ \/ body.contact.t = "missing"
       \/ body.contact.t = "str" /\ AllWhitespace(body.contact.s)

(* C1: a POST to either endpoint whose contact is empty, missing or        *)
(* whitespace-only is answered 400 with ok=false, and send_telegram is     *)
(* never invoked for it.                                                   *)
C1_BlankContactRejected ==
    \A r \in Reqs :
        (IsPost(r) /\ BlankContact(req[r].body)) => (Rejected400(r) /\ NotNotified(r))

C1_Witness ==
    \E r \in Reqs :
        /\ IsPost(r) /\ req[r].body.contact = [t |-> "str", s |-> <<" ", " ">>]
        /\ resp[r] = jsonify(400, "false", "Ukazhite kontakt")

(* A valid order: a JSON object whose contact is a string with a           *)
(* non-whitespace character and whose items, if given, are objects.        *)
ValidOrder(r) ==
    /\ IsPost(r) /\ req[r].endpoint = "order" /\ req[r].body.kind = "object"
    /\ req[r].body.contact.t = "str" /\ ~AllWhitespace(req[r].body.contact.s)
    /\ \/ req[r].body.items.t = "missing"
       \/ /\ req[r].body.items.t = "list"
          /\ \A i \in 1..Len(req[r].body.items.l) : req[r].body.items.l[i].t = "obj"

(* C2: a valid order invokes send_telegram (once) and is answered          *)
(* {ok:true} with 200 when it returns True and {ok:false} with 500 when it *)
(* returns False.                                                          *)
C2_ValidOrderResponse ==
    \A r \in Reqs :
        ValidOrder(r) =>
            /\ calls[r] = 1
            /\ pc[r] = "done" =>
                /\ result[r] \in {"true", "false"}
                /\ result[r] = "true" =>
                      (resp[r].status = 200 /\ resp[r].json /\ resp[r].ok = "true")
                /\ result[r] = "false" =>
                      (resp[r].status = 500 /\ resp[r].json /\ resp[r].ok = "false")

C2_Witness ==
    \E r \in Reqs :
        /\ ValidOrder(r) /\ pc[r] = "done" /\ result[r] = "true"
        /\ req[r].body.items.l # <<>> /\ resp[r].status = 200

(* C3: with the token or the chat id empty, every call of send_telegram    *)
(* returns False without an outbound POST and the request ends with 500.   *)
C3_UnconfiguredFails ==
    (BOT_TOKEN = "" \/ CHAT_ID = "") =>
        \A r \in Reqs :
            calls[r] > 0 =>
                /\ result[r] = "false" /\ posted[r] = <<>> /\ outcome[r] = NoOutcome
                /\ pc[r] = "done" /\ resp[r].status = 500

C3_Witness ==
    \E r \in Reqs :
        /\ BOT_TOKEN # "" /\ CHAT_ID = "" /\ calls[r] = 1
        /\ result[r] = "false" /\ posted[r] = <<>> /\ resp[r].status = 500

(* C4: a body that is not JSON is answered 400 with ok=false (the "no      *)
(* data" error); no exception leaves the handler, no field is interpreted  *)
(* and send_telegram is not called.                                        *)
C4_MalformedRejected ==
    \A r \in Reqs :
        (IsPost(r) /\ req[r].body.kind = "malformed") =>
            /\ Rejected400(r) /\ resp[r].error = "Net dannyh"
            /\ raised[r] = "" /\ NotNotified(r)
            /\ now[r] = "" /\ ct[r] = <<>> /\ msg[r] = <<>>

C4_Witness ==
    \E r \in Reqs :
        /\ IsPost(r) /\ req[r].body.kind = "malformed" /\ req[r].endpoint = "request"
        /\ resp[r].status = 400

TelegramHead == "Telegram: <a href=\"https://t.me/"
IsTelegramRendering(r) == Head(ct[r]) = TelegramHead
IsWhatsAppRendering(r) == Head(ct[r]) = "WhatsApp: "
ContactLineInMessage(r) ==
    msg[r] # <<>> => Contains(msg[r], <<"\n", "PHONE <b>Kontakt:</b> ">> \o ct[r] \o <<"\n">>)

(* C5 as claimed: every contactType other than "whatsapp" (missing or      *)
(* unknown) gives the telegram rendering of the contact line, and only     *)
(* "whatsapp" gives the WhatsApp rendering.                                *)
C5_UnknownTypeIsTelegram ==
    \A r \in Reqs :
        ct[r] # <<>> =>
            /\ req[r].body.contactType # Str("whatsapp") => IsTelegramRendering(r)
            /\ req[r].body.contactType = Str("whatsapp") => IsWhatsAppRendering(r)
            /\ ContactLineInMessage(r)

(* C5 amended: a missing contactType or the value "telegram" gives the     *)
(* telegram rendering; every other value, "whatsapp" and any unrecognized  *)
(* string alike, gives the plain-text WhatsApp rendering.                  *)
C5_OnlyTelegramIsTelegram ==
    \A r \in Reqs :
        ct[r] # <<>> =>
            /\ req[r].body.contactType \in {Missing, Str("telegram")}
                  => IsTelegramRendering(r)
            /\ req[r].body.contactType \notin {Missing, Str("telegram")}
                  => IsWhatsAppRendering(r)
            /\ ContactLineInMessage(r)

C5_Witness ==
    \E r \in Reqs :
        /\ req[r].body.contactType = Str("viber") /\ msg[r] # <<>>
        /\ ct[r] = <<"WhatsApp: ", "a">>


Configured == BOT_TOKEN # "" /\ CHAT_ID # ""
Returned(r) == pc[r] = "done" /\ outcome[r] # NoOutcome
NeverRaised(r) == raised[r] = "" /\ resp[r] # InternalServerError

C7_NoRetry ==
    \A r \in Reqs :
        /\ Len(posted[r]) <= 1 /\ calls[r] <= 1
        /\ pc[r] = "posting" => Len(posted[r]) = 1
        /\ (pc[r] = "done" /\ result[r] = "false") =>
              (resp[r].status = 500 /\ Len(posted[r]) = (IF Configured THEN 1 ELSE 0))

C7_Witness ==
    \E r \in Reqs :
        /\ pc[r] = "done" /\ outcome[r].kind = "Timeout"
        /\ Len(posted[r]) = 1 /\ resp[r].status = 500

(* C8: every response to a POST is a JSON envelope with status 200, 400 or *)
(* 500; 200 exactly when send_telegram was called and returned True, 400   *)
(* only without a call, 500 only when it was called and returned False;    *)
(* for every JSON body, whatever the types of its fields or of its top     *)
(* level.                                                                  *)
C8_EnvelopeForEveryBody ==
    \A r \in Reqs :
        (IsPost(r) /\ pc[r] = "done") =>
            /\ resp[r].json /\ resp[r].ok \in {"true", "false"}
            /\ resp[r].status \in {200, 400, 500}
            /\ resp[r].status = 200 <=> (calls[r] = 1 /\ result[r] = "true")
            /\ resp[r].status = 400 => calls[r] = 0
            /\ resp[r].status = 500 => (calls[r] = 1 /\ result[r] = "false")

(* C9: for a telegram contact the rendering is the anchor to               *)
(* https://t.me/<handle> with text @<handle>, the handle being the         *)
(* (trimmed) contact without its leading "@" characters; for whatsapp it   *)
(* is "WhatsApp: " followed by the contact verbatim, with no anchor.       *)
C9_ContactRendering ==
    \A r \in Reqs :
        ct[r] # <<>> =>
            LET c == strip(req[r].body.contact.s)
                ctype == req[r].body.contactType
            IN  /\ ctype \in {Missing, Str("telegram")} =>
                    \E k \in 0..Len(c) :
                        LET handle == SubSeq(c, k + 1, Len(c))
                        IN  /\ \A i \in 1..k : c[i] = "@"
                            /\ handle # <<>> => Head(handle) # "@"
                            /\ ct[r] = <<TelegramHead>> \o handle \o <<"\">@">>
                                          \o handle \o <<"</a>">>
                /\ ctype = Str("whatsapp") =>
                    (ct[r] = <<"WhatsApp: ">> \o c /\ ~Contains(ct[r], <<TelegramHead>>))

C9_Witness ==
    \E r \in Reqs :
        /\ req[r].body.contactType = Str("telegram")
        /\ req[r].body.contact.s = <<"@", "a">>
        /\ ct[r] = <<TelegramHead, "a", "\">@", "a", "</a>">>
        /\ posted[r] # <<>>

(* C10: under every interleaving of concurrent requests, what a request    *)
(* builds, posts and answers is determined by its own payload, the         *)
(* timestamp it read, the configuration and the outcome of its own POST.   *)
C10_Isolation ==
    \A r \in Reqs :
        pc[r] # "idle" =>
            LET p == Prepare(req[r].endpoint, req[r].body, now[r])
                sends == req[r].method = "POST" /\ p.exc = "" /\ p.resp = NoResp
                delivered == /\ outcome[r].kind = "response"
                             /\ outcome[r].code < 400
            IN  /\ req[r].method = "POST" => (ct[r] = p.ct /\ msg[r] = p.msg)
                /\ posted[r] = IF sends /\ Configured THEN <<Post(p.msg)>> ELSE <<>>
                /\ outcome[r] # NoOutcome => (sends /\ Configured)
                /\ pc[r] = "done" =>
                     resp[r] = IF req[r].method = "OPTIONS" THEN Preflight
                               ELSE IF p.exc # "" THEN InternalServerError
                               ELSE IF p.resp # NoResp THEN p.resp
                               ELSE IF Configured /\ delivered
                                    THEN jsonify(200, "true", "")
                               ELSE jsonify(500, "false", "Oshibka otpravki")

C10_Witness ==
    \E r, q \in Reqs :
        /\ r # q /\ pc[r] = "done" /\ pc[q] = "done"
        /\ req[r] = req[q] /\ now[r] = now[q] /\ posted[r] # <<>>
        /\ resp[r].status = 200 /\ resp[q].status = 500

=============================================================================
